---- MODULE Spec2Model ----
(***************************************************************************)
(* Tripster scenic-route backend (src/backend/app_scenic.py).              *)
(*                                                                         *)
(* A request to POST /scenic runs the four LangGraph nodes RouteAgent,     *)
(* PlacesAgent, ScenicAgent, ExplainAgent over one TripState dict and then *)
(* assembles the response.  Python dicts are modelled as TLA+ functions    *)
(* whose DOMAIN is the set of keys present, so d.get(k, default) and the   *)
(* KeyError of d[k] are modelled by the presence of k in DOMAIN d.         *)
(* JSON lists are sequences.  A rating is written as an integer number of  *)
(* tenths (4.7 is 47) and a scenic score, which the code rounds to two     *)
(* decimals, as an integer number of hundredths (3.17 is 317); in between  *)
(* the score is computed in binary64 as the code computes it.  A request   *)
(* blocked in an outbound call is a state of its own: the other requests   *)
(* run while it waits.  The response's timestamp (wall-clock seconds) is   *)
(* not modelled.  A TLA+ string cannot hold a backquote, so the two mock   *)
(* polylines are written with ' in its place; the backend never decodes a  *)
(* polyline.                                                               *)
(***************************************************************************)
EXTENDS Integers, Sequences, FiniteSets, TLC

VARIABLES
    GOOGLE_API_KEY,   \* TRUE iff the mapping credential is configured
    GEMINI_API_KEY,   \* TRUE iff the generation credential is configured
    pc,               \* per request: "idle", the node about to run, that node ":call" while
                      \* it is blocked in an outbound call, "respond", "done" or "failed"
    state,            \* per request: the TripState dict threaded through the graph
    result,           \* per request: the response body of scenic_trip (<<>> until assembled)
    error,            \* per request: the exception that escaped scenic_trip ("" if none)
    log,              \* per request: the HTTP responses each outbound call received
    trace,            \* per request: the nodes entered so far, in order
    top,              \* per request: the route ExplainAgent selected as top (<<>> if none)
    frame,            \* per request: the locals of the node blocked in an outbound call
    overlap           \* TRUE once a request stepped while another was mid-pipeline

vars == <<GOOGLE_API_KEY, GEMINI_API_KEY, pc, state, result, error, log, trace, top, frame,
          overlap>>

Requests == {"req1", "req2"}

(* ------------------------------ bounds -------------------------------- *)

\* Longest POI list (beyond the fixed long lists below) a places lookup returns.
MaxPois == 2

(* ---------------------------- dict helpers ---------------------------- *)

\* d.get(k, default)
Get(d, k, default) == IF k \in DOMAIN d THEN d[k] ELSE default

\* d[k] = v
Put(d, k, v) == [x \in (DOMAIN d) \cup {k} |-> IF x = k THEN v ELSE d[x]]

\* {} : the empty dict
EmptyDict == [k \in {} |-> 0]

\* A parsed JSON document: a dict (JSON object) or a list (JSON array).
JsonDict(d) == [type |-> "dict", value |-> d]
JsonList(s) == [type |-> "list", value |-> s]

(* ---------------------------- HTTP responses -------------------------- *)

\* What requests.post / requests.get can do: raise (connection error, or
\* the 15 s timeout), or return a response with a status and a body that is
\* either not JSON at all or a JSON document.
NotJson == [type |-> "invalid", value |-> <<>>]
TransportError == [kind |-> "transport_error", status |-> 0, body |-> NotJson]
Timeout == [kind |-> "timeout", status |-> 0, body |-> NotJson]
Http(status, body) == [kind |-> "http", status |-> status, body |-> body]

\* r.raise_for_status() raises for 4xx and 5xx.
RaisesForStatus(resp) == resp.status >= 400 /\ resp.status < 600

\* safe_post / safe_get: the parsed body, or {} on any exception.
SafeRequest(resp) ==
    IF resp.kind # "http" \/ RaisesForStatus(resp) \/ resp.body.type = "invalid"
    THEN JsonDict(EmptyDict)
    ELSE resp.body

safe_post(resp) == SafeRequest(resp)

safe_get(resp) == SafeRequest(resp)

(* ------------------------------ mock data ----------------------------- *)

mock_routes ==
    << [id |-> "fastest", label |-> "Fastest",
        polyline |-> [encodedPolyline |-> "}_seFf|'uPd@w@'A_BvB}C"],
        distanceMeters |-> 190000, durationSeconds |-> 7200,
        summary |-> "I-17 N"],
       [id |-> "scenic", label |-> "Scenic",
        polyline |-> [encodedPolyline |-> "o'seFz{'uPp@jAb@l@"],
        distanceMeters |-> 210000, durationSeconds |-> 8400,
        summary |-> "State Rte 179 through red rocks"] >>

mock_places ==
    << [name |-> "Oak Creek Canyon Vista", types |-> <<"park">>, rating |-> 47],
       [name |-> "Red Rock State Park", types |-> <<"park">>, rating |-> 48] >>

(* ------------------------ node results -------------------------------- *)

\* A node either returns the updated TripState or raises.  "calls" are the
\* HTTP responses the node's outbound calls received, in call order, and
\* "top" is ExplainAgent's local variable top (<<>> elsewhere).
Returned(st, calls) == [ok |-> TRUE, state |-> st, calls |-> calls, exc |-> "", top |-> <<>>]
Raised(exc, calls) == [ok |-> FALSE, state |-> <<>>, calls |-> calls, exc |-> exc, top |-> <<>>]

(* ------------------------------ RouteAgent ---------------------------- *)

\* Variant: the route list taken as it comes, without the fallback.
RouteFallbackNone(routes) == routes

\* resp.get("routes", []) or mock_routes(...): the mock set replaces an
\* absent or empty route list.
RouteFallback(routes) == IF routes # <<>> THEN routes ELSE mock_routes

\* get_routes: without the credential no call is made.  With it, resp is
\* what the one POST to the routing provider received; resp.get raises
\* AttributeError when the parsed body is not a dict.
get_routes(st, key, resp) ==
    IF ~key
    THEN Returned(Put(st, "routes", mock_routes), <<>>)
    ELSE LET parsed == safe_post(resp) IN
         IF parsed.type # "dict"
         THEN Raised("AttributeError", <<resp>>)
         ELSE Returned(Put(st, "routes",
                           RouteFallback(Get(parsed.value, "routes", <<>>))),
                       <<resp>>)

(* ------------------------------ PlacesAgent --------------------------- *)

\* Variant: the provider is queried whatever the credential.
CallsPlacesAlways(key) == TRUE

\* if not GOOGLE_API_KEY: ... else: the branch that queries the provider.
CallsPlaces(key) == key

\* Variant: places stored under the route's label.
PlacesKeyLabel(r) == Get(r, "label", "Route")

\* The key under which a route's places are stored.
PlacesKey(r) == r["id"]

\* One turn of the loop of get_places, for route r: work.acc is
\* places_by_route so far, work.calls the responses consumed so far, and
\* resp is what the GET for r receives if it is made.  In
\* places_by_route[r["id"]] = data.get(...) the right-hand side is evaluated
\* first (AttributeError when the parsed body is not a dict), then r["id"]
\* (KeyError when the route has no id).
PlacesTurn(r, key, resp, work) ==
    LET raise(exc, calls) == [ok |-> FALSE, exc |-> exc, acc |-> work.acc, calls |-> calls]
        store(places, calls) == [ok |-> TRUE, exc |-> "",
                                 acc |-> Put(work.acc, PlacesKey(r), places),
                                 calls |-> calls]
    IN  IF ~CallsPlaces(key)
        THEN IF "id" \notin DOMAIN r
             THEN raise("KeyError", work.calls)
             ELSE store(mock_places, work.calls)
        ELSE LET data == safe_get(resp)
                 calls == Append(work.calls, resp)
             IN  IF data.type # "dict" THEN raise("AttributeError", calls)
                 ELSE IF "id" \notin DOMAIN r THEN raise("KeyError", calls)
                 ELSE store(Get(data.value, "results", <<>>), calls)

\* The loop of get_places from route k on.  resps[k] is what the GET for
\* route k receives if it is made.
RECURSIVE PlacesLoop(_, _, _, _, _, _)
PlacesLoop(st, routes, key, resps, k, work) ==
    IF k > Len(routes)
    THEN Returned(Put(st, "places_by_route", work.acc), work.calls)
    ELSE LET turn == PlacesTurn(routes[k], key,
                                IF CallsPlaces(key) THEN resps[k] ELSE <<>>, work)
         IN  IF ~turn.ok
             THEN Raised(turn.exc, turn.calls)
             ELSE PlacesLoop(st, routes, key, resps, k + 1,
                             [acc |-> turn.acc, calls |-> turn.calls])

get_places(st, key, resps) ==
    PlacesLoop(st, Get(st, "routes", <<>>), key, resps, 1,
               [acc |-> EmptyDict, calls |-> <<>>])

(* ------------------------------ ScenicAgent --------------------------- *)

\* x in p.get("types", [])
HasType(p, t) == \E k \in DOMAIN Get(p, "types", <<>>) : Get(p, "types", <<>>)[k] = t

\* sum(1 for p in places if t in p.get("types", []))
CountType(places, t) == Cardinality({k \in DOMAIN places : HasType(places[k], t)})

(* Python floats are IEEE-754 binary64, and scenic_score rounds the double
   its sum evaluated to, not the decimal the formula denotes.  A non-negative
   double x is modelled exactly, as the natural number x * 2^75 written
   little-endian in limbs of 15 bits (<<>> is 0); every double from 2^-22 up
   is such a number.  Each operation computes the exact result and rounds
   it to 53 significant bits, ties to even, as the hardware does. *)
Base == 2^15

\* 1.0
One == <<0, 0, 0, 0, 0, 1>>

Limb(a, k) == IF k <= Len(a) THEN a[k] ELSE 0

Rest(a) == IF a = <<>> THEN <<>> ELSE Tail(a)

\* The number with lowest limb x above which stands a; no leading zero limb.
Cons(x, a) == IF x = 0 /\ a = <<>> THEN <<>> ELSE <<x>> \o a

\* a + b + carry
RECURSIVE BigAdd(_, _, _)
BigAdd(a, b, carry) ==
    IF a = <<>> /\ b = <<>> THEN Cons(carry, <<>>)
    ELSE LET x == Limb(a, 1) + Limb(b, 1) + carry
         IN  Cons(x % Base, BigAdd(Rest(a), Rest(b), x \div Base))

\* a * k + carry, for an integer k below Base
RECURSIVE BigMul(_, _, _)
BigMul(a, k, carry) ==
    IF a = <<>> THEN Cons(carry, <<>>)
    ELSE LET x == Head(a) * k + carry
         IN  Cons(x % Base, BigMul(Tail(a), k, x \div Base))

\* Quotient and remainder of a by an integer d of at most Base.
RECURSIVE BigDiv(_, _)
BigDiv(a, d) ==
    IF a = <<>> THEN [q |-> <<>>, r |-> 0]
    ELSE LET hi == BigDiv(Tail(a), d)
             x == hi.r * Base + Head(a)
         IN  [q |-> Cons(x \div d, hi.q), r |-> x % d]

\* a < b
RECURSIVE BigLess(_, _)
BigLess(a, b) ==
    IF Len(a) # Len(b) THEN Len(a) < Len(b)
    ELSE IF a = <<>> THEN FALSE
    ELSE IF a[Len(a)] # b[Len(b)] THEN a[Len(a)] < b[Len(b)]
    ELSE BigLess(SubSeq(a, 1, Len(a) - 1), SubSeq(b, 1, Len(b) - 1))

\* The integer a number of few limbs stands for.
RECURSIVE Small(_)
Small(a) == IF a = <<>> THEN 0 ELSE Head(a) + Base * Small(Tail(a))

RECURSIVE Bits(_)
Bits(x) == IF x = 0 THEN 0 ELSE 1 + Bits(x \div 2)

BitLen(a) == IF a = <<>> THEN 0 ELSE 15 * (Len(a) - 1) + Bits(a[Len(a)])

\* a / 2^s (s >= 1) rounded to the nearest integer, ties to even.  inexact
\* says that a is the floor of a value that is not an integer.
Nearest(a, s, inexact) ==
    LET k == (s - 1) \div 15
        kept == IF k < Len(a) THEN SubSeq(a, k + 1, Len(a)) ELSE <<>>
        d == BigDiv(kept, 2^((s - 1) % 15))
        e == BigDiv(d.q, 2)
        sticky == inexact \/ d.r # 0 \/ \E j \in 1..k : Limb(a, j) # 0
    IN  IF e.r = 1 /\ (sticky \/ Limb(e.q, 1) % 2 = 1)
        THEN BigAdd(e.q, <<>>, 1)
        ELSE e.q

\* a * 2^s
ShiftLeft(a, s) ==
    IF a = <<>> THEN <<>>
    ELSE [j \in 1..(s \div 15) |-> 0] \o BigMul(a, 2^(s % 15), 0)

\* The double nearest to a (or to the non-integer just above it).
Round53(a, inexact) ==
    LET len == BitLen(a) IN
    IF len <= 53 THEN a
    ELSE ShiftLeft(Nearest(a, len - 53, inexact), len - 53)

FloatAdd(a, b) == Round53(BigAdd(a, b, 0), FALSE)

\* x * k and x / k for a double x and a small integer k
FloatMul(a, k) == Round53(BigMul(a, k, 0), FALSE)

FloatDiv(a, k) == LET d == BigDiv(a, k) IN Round53(d.q, d.r # 0)

\* The double a decimal with one fractional digit is read as: the literals
\* 0.4, 0.3, 0.2 of the source, and a rating of the provider's JSON.
Double(tenths) == FloatDiv(BigMul(One, tenths, 0), 10)

\* sum(p.get("rating", 0) for p in places): the left-to-right float sum.
\* at is the loop's position: the next place and the total so far.
RECURSIVE SumRatings(_, _)
SumRatings(places, at) ==
    IF at.k > Len(places) THEN at.total
    ELSE SumRatings(places,
                    [k |-> at.k + 1,
                     total |-> FloatAdd(at.total,
                                        Double(Get(places[at.k], "rating", 0)))])

\* avg_rating = sum(...) / max(1, len(places))
AvgRating(places) ==
    FloatDiv(SumRatings(places, [k |-> 1, total |-> <<>>]),
             IF Len(places) >= 1 THEN Len(places) ELSE 1)

\* score = 0.4*parks + 0.3*water + 0.2*attractions + 0.5*avg_rating,
\* evaluated left to right; 0.5 * x halves x exactly.
RawScore(places) ==
    FloatAdd(FloatAdd(FloatAdd(FloatMul(Double(4), CountType(places, "park")),
                               FloatMul(Double(3), CountType(places, "natural_feature"))),
                      FloatMul(Double(2), CountType(places, "tourist_attraction"))),
             FloatDiv(AvgRating(places), 2))

\* Variant: no upper clamp.
ClampNone(score) == score

\* min(10.0, score)
Clamp(score) == IF BigLess(score, BigMul(One, 10, 0)) THEN score ELSE BigMul(One, 10, 0)

\* round(x, 2), in hundredths: Python rounds the exact value of the double
\* to the nearest hundredth, and to the even one when the double is a tie
\* (0.375 is 0.38, 0.125 is 0.12).  A sum that denotes a decimal tie is
\* mostly not a tie as a double: 1.1 + 1.125 is 2.2250000000000000888 and
\* rounds to 2.23, the mock parks' 0.8 + 2.375 is 3.1749999999999998224
\* and rounds to 3.17.
Round2(x) == Small(Nearest(BigMul(x, 100, 0), 75, FALSE))

\* The score of one route's places, in hundredths.
ScoreOf(places) == Round2(Clamp(RawScore(places)))

\* The loop of scenic_score from route k on.
RECURSIVE ScoreLoop(_, _, _, _)
ScoreLoop(st, routes, k, scores) ==
    IF k > Len(routes)
    THEN Returned(Put(st, "scenic_scores", scores), <<>>)
    ELSE LET r == routes[k] IN
         IF "id" \notin DOMAIN r
         THEN Raised("KeyError", <<>>)
         ELSE ScoreLoop(st, routes, k + 1,
                        Put(scores, r["id"],
                            ScoreOf(Get(Get(st, "places_by_route", EmptyDict), r["id"], <<>>))))

scenic_score(st) == ScoreLoop(st, Get(st, "routes", <<>>), 1, EmptyDict)

(* ------------------------------ ExplainAgent -------------------------- *)

\* Variant: a max that keeps the last maximal element.
ArgMaxLast(keys) ==
    CHOOSE k \in DOMAIN keys :
        /\ \A j \in DOMAIN keys : keys[j] <= keys[k]
        /\ \A j \in DOMAIN keys : j > k => keys[j] < keys[k]

\* max(seq, key=...) returns the first element whose key is maximal; keys
\* is the sequence of the elements' keys.  The index of that element.
ArgMax(keys) ==
    CHOOSE k \in DOMAIN keys :
        /\ \A j \in DOMAIN keys : keys[j] <= keys[k]
        /\ \A j \in DOMAIN keys : j < k => keys[j] < keys[k]

\* str() of a float score: Python prints the float rounded to 2 decimals
\* with at least one decimal digit and no trailing zero beyond it ("3.17",
\* "2.5", "10.0", "0.0").
FormatScore(s) ==
    ToString(s \div 100) \o "." \o
    (IF s % 10 = 0
     THEN ToString((s % 100) \div 10)
     ELSE ToString((s % 100) \div 10) \o ToString(s % 10))

\* ", ".join(names)
RECURSIVE Join(_)
Join(names) ==
    IF names = <<>> THEN ""
    ELSE IF Len(names) = 1 THEN Head(names)
    ELSE Head(names) \o ", " \o Join(Tail(names))

\* seq[:3]
FirstThree(seq) == SubSeq(seq, 1, IF Len(seq) < 3 THEN Len(seq) ELSE 3)

\* ", ".join(p.get("name", "") for p in places[:3]) or "parks and landmarks"
Highlights(places) ==
    LET joined == Join([k \in DOMAIN FirstThree(places) |->
                           Get(FirstThree(places)[k], "name", "")])
    IN  IF joined # "" THEN joined ELSE "parks and landmarks"

\* {score} for score = scenic_scores.get(id, 0): the float scenic_score
\* stored, or the int 0 of the default, which prints as "0".
ScoreText(scenic_scores, id) ==
    IF id \in DOMAIN scenic_scores THEN FormatScore(scenic_scores[id]) ELSE "0"

\* f"This route scores {score}/10 with highlights: {highlights}."
Template(score, highlights) ==
    "This route scores " \o score \o "/10 with highlights: " \o highlights \o "."

\* resp.json() and data.get("candidates", [{}])[0].get("content", {})
\*     .get("parts", [{}])[0].get("text", ""): the text, or the exception.
\* There is no raise_for_status here: the status is not looked at.
GeminiText(resp) ==
    IF resp.kind # "http" THEN [ok |-> FALSE, text |-> ""]
    ELSE IF resp.body.type # "dict" THEN [ok |-> FALSE, text |-> ""]
    ELSE LET candidates == Get(resp.body.value, "candidates", << EmptyDict >>) IN
         IF candidates = <<>> THEN [ok |-> FALSE, text |-> ""]
         ELSE LET parts == Get(Get(candidates[1], "content", EmptyDict),
                               "parts", << EmptyDict >>) IN
              IF parts = <<>> THEN [ok |-> FALSE, text |-> ""]
              ELSE [ok |-> TRUE, text |-> Get(parts[1], "text", "")]

\* The guard of the outbound call in explain_with_gemini.
CallsGemini(key) == key

\* explain_with_gemini up to its outbound call: the node's result when it
\* makes no call, and otherwise (calls) the locals top and the templated
\* sentence the except branch falls back to.
ExplainBefore(st, key) ==
    LET routes == Get(st, "routes", <<>>)
        scenic_scores == Get(st, "scenic_scores", EmptyDict)
        places_by_route == Get(st, "places_by_route", EmptyDict)
        ends(out) == [calls |-> FALSE, out |-> out, top |-> <<>>, fallback |-> ""]
    IN  IF routes = <<>>
        THEN ends(Returned(Put(st, "explanation", "No routes available."), <<>>))
        ELSE IF \E k \in DOMAIN routes : "id" \notin DOMAIN routes[k]
        THEN ends(Raised("KeyError", <<>>))
        ELSE LET t == routes[ArgMax([k \in DOMAIN routes |->
                                        Get(scenic_scores, routes[k]["id"], 0)])]
                 highlights == Highlights(Get(places_by_route, t["id"], <<>>))
                 score == ScoreText(scenic_scores, t["id"])
                 fallback == Template(score, highlights)
             IN  IF ~CallsGemini(key)
                 THEN ends([Returned(Put(st, "explanation", fallback), <<>>)
                               EXCEPT !.top = t])
                 ELSE [calls |-> TRUE, out |-> <<>>, top |-> t, fallback |-> fallback]

\* explain_with_gemini from the return of its outbound call, which
\* received resp.
ExplainAfter(st, locals, resp) ==
    [Returned(Put(st, "explanation",
                  IF GeminiText(resp).ok THEN GeminiText(resp).text
                  ELSE locals.fallback),
              <<resp>>)
        EXCEPT !.top = locals.top]

\* explain_with_gemini; resp is what the POST to the generation provider
\* receives if it is made.
explain_with_gemini(st, key, resp) ==
    LET before == ExplainBefore(st, key) IN
    IF before.calls THEN ExplainAfter(st, before, resp) ELSE before.out

(* ------------------------------ scenic_trip --------------------------- *)

\* topScenicRouteId when there is no route (JSON null).
None == "<null>"

\* The response's routes list, in the order of result["routes"].
ResponseRoutes(final) ==
    LET rs == Get(final, "routes", <<>>) IN
    [k \in DOMAIN rs |->
        [id |-> rs[k]["id"],
         label |-> Get(rs[k], "label", "Route"),
         polyline |-> rs[k]["polyline"]["encodedPolyline"],
         scenicScore |-> Get(Get(final, "scenic_scores", EmptyDict), rs[k]["id"], 0)]]

\* max(routes, key=lambda x: x["scenicScore"], default=None), then its id.
TopScenicRouteId(routes) ==
    IF routes = <<>> THEN None
    ELSE routes[ArgMax([k \in DOMAIN routes |-> routes[k].scenicScore])].id

\* The body of scenic_trip after app_graph.invoke returned final: the
\* response, or the KeyError of r["id"], r["polyline"] or
\* r["polyline"]["encodedPolyline"].
Respond(final) ==
    LET rs == Get(final, "routes", <<>>) IN
    IF \E k \in DOMAIN rs :
          \/ "id" \notin DOMAIN rs[k]
          \/ "polyline" \notin DOMAIN rs[k]
          \/ "encodedPolyline" \notin DOMAIN rs[k]["polyline"]
    THEN [ok |-> FALSE, exc |-> "KeyError", body |-> <<>>]
    ELSE [ok |-> TRUE, exc |-> "",
          body |-> [routes |-> ResponseRoutes(final),
                    scores |-> Get(final, "scenic_scores", EmptyDict),
                    explanation |-> Get(final, "explanation", ""),
                    topScenicRouteId |-> TopScenicRouteId(ResponseRoutes(final))]]

(* ------------------------------ inputs -------------------------------- *)

\* Request bodies {origin, destination}.
Trips == { [origin |-> "Phoenix, AZ", destination |-> "Sedona, AZ"],
           [origin |-> "Flagstaff, AZ", destination |-> "Page, AZ"] }

\* Routes a routing provider can answer with.  GoogleRoute has exactly the
\* fields the X-Goog-FieldMask of get_routes asks for: it has no "id".
RouteA == [id |-> "r1", label |-> "Via I-17",
           polyline |-> [encodedPolyline |-> "a~l~Fjk~uOwHJy@P"]]
RouteB == [id |-> "r2", polyline |-> [encodedPolyline |-> "_p~iF~ps|U_ulL"]]
RouteNoGeometry == [id |-> "r3", label |-> "Unmapped"]
GoogleRoute == [distanceMeters |-> 186000, duration |-> "7380s",
                polyline |-> [encodedPolyline |-> "ipkcFfichVnP@j@"],
                description |-> "I-17 N", routeLabels |-> <<"DEFAULT_ROUTE">>]

RouteLists == { <<RouteA, RouteB>>, <<RouteB, RouteA>>, <<RouteA>>,
                <<RouteNoGeometry>>, <<GoogleRoute>>, <<RouteA, GoogleRoute>> }

\* An error body as the Google APIs send it with a 4xx/5xx status.
ErrorBody == JsonDict([error |-> [code |-> 404, status |-> "NOT_FOUND"]])

RouteResponses ==
    { TransportError, Timeout, Http(500, ErrorBody), Http(200, NotJson),
      Http(200, JsonList(<<>>)), Http(200, JsonDict(EmptyDict)),
      Http(200, JsonDict([routes |-> <<>>])) }
    \cup { Http(200, JsonDict([routes |-> l])) : l \in RouteLists }

\* Places a places provider can answer with: a place of all three scored
\* types, an attraction, and a place with no name, types or rating.
SlideRock == [name |-> "Slide Rock State Park",
              types |-> <<"park", "natural_feature", "tourist_attraction">>,
              rating |-> 50]
BellRock == [name |-> "Bell Rock", types |-> <<"tourist_attraction">>, rating |-> 40]
Unnamed == [place_id |-> "ChIJ"]

Pois == {SlideRock, BellRock, Unnamed}

RECURSIVE SeqsUpTo(_, _)
SeqsUpTo(S, n) ==
    IF n = 0 THEN { <<>> }
    ELSE SeqsUpTo(S, n - 1)
         \cup { Append(q, x) : q \in { t \in SeqsUpTo(S, n - 1) : Len(t) = n - 1 }, x \in S }

\* Nine top-rated places of all three types (raw score 0.9 * 9 + 2.5), and a
\* mixed list longer than the three names a highlight keeps.
NineSlideRocks == [k \in 1..9 |-> SlideRock]
MixedFour == <<BellRock, SlideRock, Unnamed, BellRock>>

PoiLists == SeqsUpTo(Pois, MaxPois) \cup {NineSlideRocks, MixedFour}

PlaceResponses ==
    { TransportError, Timeout, Http(500, ErrorBody), Http(200, NotJson),
      Http(200, JsonList(<<>>)), Http(200, JsonDict([status |-> "OK"])) }
    \cup { Http(200, JsonDict([results |-> l])) : l \in PoiLists }

\* A generateContent answer carrying text t.
Generated(t) ==
    JsonDict([candidates |-> << [content |-> [parts |-> << [text |-> t] >>]] >>])

GeminiResponses ==
    { TransportError, Timeout, Http(200, NotJson), Http(200, JsonList(<<>>)),
      Http(404, ErrorBody),
      Http(200, JsonDict([candidates |-> <<>>])),
      Http(200, JsonDict([candidates |-> << [finishReason |-> "SAFETY"] >>])),
      Http(200, JsonDict([candidates |-> << [content |-> [parts |-> <<>>]] >>])),
      Http(200, Generated("A drive through red rock country.")) }

\* The smaller input sets of the two-request specification.
ConcRouteResponses ==
    { TransportError, Http(200, JsonDict([routes |-> <<RouteA, RouteB>>])),
      Http(200, JsonDict([routes |-> <<GoogleRoute>>])) }

ConcPlaceResponses ==
    { Timeout, Http(200, JsonList(<<>>)),
      Http(200, JsonDict([results |-> <<SlideRock>>])) }

ConcGeminiResponses ==
    { Http(404, ErrorBody), Http(200, Generated("A drive through red rock country.")) }

(* ------------------------------ state machine ------------------------- *)

Nodes == <<"RouteAgent", "PlacesAgent", "ScenicAgent", "ExplainAgent">>

\* A request that entered the graph and has neither responded nor failed.
InFlight(i) == trace[i] # <<>> /\ pc[i] \notin {"done", "failed"}

\* Variant: one TripState shared by every request.
SlotShared(i) == "req1"

\* The TripState a request works on: app_graph.invoke is handed a dict
\* built for that request alone.
Slot(i) == i

NoCalls == [RouteAgent |-> <<>>, PlacesAgent |-> <<>>, ExplainAgent |-> <<>>]

\* The locals of a node that is not inside an outbound call.
NoLocals == <<>>

\* State after scenic_trip received the requests in active, each with a
\* request body, under some configuration of the two credentials.
InitWith(active) ==
    /\ GOOGLE_API_KEY \in BOOLEAN
    /\ GEMINI_API_KEY \in BOOLEAN
    /\ pc = [i \in Requests |-> IF i \in active THEN "RouteAgent" ELSE "idle"]
    /\ \E trips \in [active -> Trips] :
          state = [i \in Requests |-> IF i \in active THEN trips[i] ELSE EmptyDict]
    /\ result = [i \in Requests |-> <<>>]
    /\ error = [i \in Requests |-> ""]
    /\ log = [i \in Requests |-> NoCalls]
    /\ trace = [i \in Requests |-> <<>>]
    /\ top = [i \in Requests |-> <<>>]
    /\ frame = [i \in Requests |-> NoLocals]
    /\ overlap = FALSE

\* Request i takes a step while another request is mid-pipeline.
Overlaps(i) == overlap \/ \E j \in Requests \ {i} : InFlight(j)

\* A node of the graph returned or raised out for request i, in the step
\* that entered it (entering) or in a later one; an exception leaves the
\* graph and scenic_trip (HTTP 500).
NodeStep(i, node, next, out, entering) ==
    /\ pc' = [pc EXCEPT ![i] = IF out.ok THEN next ELSE "failed"]
    /\ state' = [state EXCEPT ![Slot(i)] = IF out.ok THEN out.state ELSE @]
    /\ error' = [error EXCEPT ![i] = out.exc]
    /\ log' = [log EXCEPT ![i][node] = out.calls]
    /\ trace' = [trace EXCEPT ![i] = IF entering THEN Append(@, node) ELSE @]
    /\ top' = [top EXCEPT ![i] = out.top]
    /\ frame' = [frame EXCEPT ![i] = NoLocals]
    /\ overlap' = Overlaps(i)
    /\ UNCHANGED <<GOOGLE_API_KEY, GEMINI_API_KEY, result>>

\* Request i blocks in an outbound call of node (requests.post or
\* requests.get, up to the 15 s timeout) holding locals; calls are the
\* responses the node received so far.  Other requests run meanwhile.
NodeCall(i, node, locals, calls, entering) ==
    /\ pc' = [pc EXCEPT ![i] = node \o ":call"]
    /\ frame' = [frame EXCEPT ![i] = locals]
    /\ log' = [log EXCEPT ![i][node] = calls]
    /\ trace' = [trace EXCEPT ![i] = IF entering THEN Append(@, node) ELSE @]
    /\ overlap' = Overlaps(i)
    /\ UNCHANGED <<GOOGLE_API_KEY, GEMINI_API_KEY, state, result, error, top>>

\* get_routes up to its POST, or whole when it makes none.
RouteAgent(i) ==
    /\ pc[i] = "RouteAgent"
    /\ IF GOOGLE_API_KEY
       THEN NodeCall(i, "RouteAgent", NoLocals, <<>>, TRUE)
       ELSE NodeStep(i, "RouteAgent", "PlacesAgent",
                     get_routes(state[Slot(i)], FALSE, <<>>), TRUE)

\* The POST of get_routes returns or raises, and get_routes runs on to its
\* end.
RouteAgentReturn(i, resps) ==
    /\ pc[i] = "RouteAgent:call"
    /\ \E resp \in resps :
          NodeStep(i, "RouteAgent", "PlacesAgent",
                   get_routes(state[Slot(i)], GOOGLE_API_KEY, resp), FALSE)

\* get_places up to its first GET, or whole when it makes none.
PlacesAgent(i) ==
    /\ pc[i] = "PlacesAgent"
    /\ LET routes == Get(state[Slot(i)], "routes", <<>>) IN
       IF CallsPlaces(GOOGLE_API_KEY) /\ routes # <<>>
       THEN NodeCall(i, "PlacesAgent",
                     [routes |-> routes, k |-> 1, acc |-> EmptyDict], <<>>, TRUE)
       ELSE NodeStep(i, "PlacesAgent", "ScenicAgent",
                     get_places(state[Slot(i)], GOOGLE_API_KEY, <<>>), TRUE)

\* The GET for route k returns or raises, and get_places runs on to the GET
\* for the next route or, after the last, to its end.
PlacesAgentReturn(i, resps) ==
    /\ pc[i] = "PlacesAgent:call"
    /\ \E resp \in resps :
          LET routes == frame[i].routes
              k == frame[i].k
              turn == PlacesTurn(routes[k], GOOGLE_API_KEY, resp,
                                 [acc |-> frame[i].acc, calls |-> log[i].PlacesAgent])
          IN  IF turn.ok /\ k < Len(routes)
              THEN NodeCall(i, "PlacesAgent",
                            [routes |-> routes, k |-> k + 1, acc |-> turn.acc],
                            turn.calls, FALSE)
              ELSE NodeStep(i, "PlacesAgent", "ScenicAgent",
                            PlacesLoop(state[Slot(i)], routes, GOOGLE_API_KEY,
                                       [j \in {k} |-> resp], k,
                                       [acc |-> frame[i].acc,
                                        calls |-> log[i].PlacesAgent]),
                            FALSE)

ScenicAgent(i) ==
    /\ pc[i] = "ScenicAgent"
    /\ NodeStep(i, "ScenicAgent", "ExplainAgent", scenic_score(state[Slot(i)]), TRUE)

\* explain_with_gemini up to its POST, or whole when it makes none.
ExplainAgent(i) ==
    /\ pc[i] = "ExplainAgent"
    /\ LET before == ExplainBefore(state[Slot(i)], GEMINI_API_KEY) IN
       IF before.calls
       THEN NodeCall(i, "ExplainAgent",
                     [top |-> before.top, fallback |-> before.fallback], <<>>, TRUE)
       ELSE NodeStep(i, "ExplainAgent", "respond", before.out, TRUE)

\* The POST of explain_with_gemini returns or raises, and
\* explain_with_gemini runs on to its end.
ExplainAgentReturn(i, resps) ==
    /\ pc[i] = "ExplainAgent:call"
    /\ \E resp \in resps :
          NodeStep(i, "ExplainAgent", "respond",
                   ExplainAfter(state[Slot(i)], frame[i], resp), FALSE)

\* scenic_trip builds the response from the graph's final state.
scenic_trip(i) ==
    /\ pc[i] = "respond"
    /\ LET out == Respond(state[Slot(i)]) IN
         /\ pc' = [pc EXCEPT ![i] = IF out.ok THEN "done" ELSE "failed"]
         /\ result' = [result EXCEPT ![i] = out.body]
         /\ error' = [error EXCEPT ![i] = out.exc]
    /\ overlap' = Overlaps(i)
    /\ UNCHANGED <<GOOGLE_API_KEY, GEMINI_API_KEY, state, log, trace, top, frame>>

\* One request.
Init == InitWith({"req1"})

Next ==
    \E i \in Requests :
        \/ RouteAgent(i)
        \/ RouteAgentReturn(i, RouteResponses)
        \/ PlacesAgent(i)
        \/ PlacesAgentReturn(i, PlaceResponses)
        \/ ScenicAgent(i)
        \/ ExplainAgent(i)
        \/ ExplainAgentReturn(i, GeminiResponses)
        \/ scenic_trip(i)

Spec == Init /\ [][Next]_vars

\* Two requests served concurrently: FastAPI runs the sync endpoint on a
\* thread pool, and a thread blocked in an outbound call lets the others
\* run.
InitConc == InitWith(Requests)

NextConc ==
    \E i \in Requests :
        \/ RouteAgent(i)
        \/ RouteAgentReturn(i, ConcRouteResponses)
        \/ PlacesAgent(i)
        \/ PlacesAgentReturn(i, ConcPlaceResponses)
        \/ ScenicAgent(i)
        \/ ExplainAgent(i)
        \/ ExplainAgentReturn(i, ConcGeminiResponses)
        \/ scenic_trip(i)

SpecConc == InitConc /\ [][NextConc]_vars

(* ====================================================================== *)
(*                               Claims                                   *)
(* ====================================================================== *)

Started == {i \in Requests : pc[i] # "idle"}

Written(i, field) == field \in DOMAIN state[i]

\* The ids of the routes of request i.
RouteIds(i) == {state[i].routes[k]["id"] : k \in DOMAIN state[i].routes}

\* An outbound call that raised, timed out, came back with a non-success
\* status or carried a body that is not JSON.
CallFailed(resp) ==
    resp.kind \in {"transport_error", "timeout"} \/ resp.status >= 400
    \/ resp.body.type = "invalid"

\* The routes a routing response carries (none when the call failed).
RoutesIn(resp) ==
    IF CallFailed(resp) \/ resp.body.type # "dict" \/ "routes" \notin DOMAIN resp.body.value
    THEN <<>>
    ELSE resp.body.value.routes

\* The places a places response carries (none when the call failed).
PlacesIn(resp) ==
    IF CallFailed(resp) \/ resp.body.type # "dict" \/ "results" \notin DOMAIN resp.body.value
    THEN <<>>
    ELSE resp.body.value.results

\* A generation response without text at candidates[0].content.parts[0].text.
LacksText(resp) ==
    \/ resp.body.type # "dict"
    \/ "candidates" \notin DOMAIN resp.body.value
    \/ resp.body.value.candidates = <<>>
    \/ "content" \notin DOMAIN resp.body.value.candidates[1]
    \/ "parts" \notin DOMAIN resp.body.value.candidates[1].content
    \/ resp.body.value.candidates[1].content.parts = <<>>
    \/ "text" \notin DOMAIN resp.body.value.candidates[1].content.parts[1]

\* The sum of the ratings of places, in tenths.
RECURSIVE TenthsOf(_)
TenthsOf(places) ==
    IF places = <<>> THEN 0
    ELSE Get(Head(places), "rating", 0) + TenthsOf(Tail(places))

\* The templated sentence for the route ExplainAgent selected.
TemplateFor(i) ==
    Template(FormatScore(state[i].scenic_scores[top[i]["id"]]),
             Highlights(state[i].places_by_route[top[i]["id"]]))

\* C1: for every combination of credentials and every outcome of every
\* outbound call, evaluate runs to completion and returns a result: no stage
\* aborts and no error is surfaced to the caller.
C1_NoErrorSurfaced == \A i \in Started : pc[i] # "failed" /\ error[i] = ""

\* C2: after RouteRetrieval routes is non-empty; it is the two-route mock set
\* ("fastest" then "scenic", whatever the origin and destination) when the
\* routing credential is absent or the provider response carries no route
\* (any failed call included), and the provider's route sequence otherwise.
C2_RoutesNonEmpty ==
    \A i \in Started :
        Written(i, "routes") =>
            /\ state[i].routes # <<>>
            /\ IF ~GOOGLE_API_KEY
               THEN state[i].routes = mock_routes
               ELSE /\ Len(log[i].RouteAgent) = 1
                    /\ IF RoutesIn(log[i].RouteAgent[1]) = <<>>
                       THEN state[i].routes = mock_routes
                       ELSE state[i].routes = RoutesIn(log[i].RouteAgent[1])
            /\ state[i].routes = mock_routes =>
                  /\ Len(state[i].routes) = 2
                  /\ state[i].routes[1]["id"] = "fastest"
                  /\ state[i].routes[2]["id"] = "scenic"

\* Both arms of C2 with the credential present: a timed-out routing call
\* that fell back to the mock set.
C2_Witness ==
    \E i \in Started :
        /\ GOOGLE_API_KEY
        /\ Written(i, "routes")
        /\ log[i].RouteAgent = <<Timeout>>
        /\ state[i].routes = mock_routes
        /\ state[i].origin = "Flagstaff, AZ"

\* C3: with routes non-empty, whenever the generation credential is absent or
\* the generation call fails in any way (raises, times out, non-success
\* status, or content lacking the candidates/content/parts text) the
\* explanation is exactly the templated sentence for the top route.
C3_TemplateOnAnyFailure ==
    \A i \in Started :
        (Written(i, "explanation") /\ state[i].routes # <<>>) =>
            ((~GEMINI_API_KEY
              \/ CallFailed(log[i].ExplainAgent[1])
              \/ LacksText(log[i].ExplainAgent[1]))
             => state[i].explanation = TemplateFor(i))

\* C4: topScenicRouteId is the id of the first route, in routes order, whose
\* scenic score is maximal; it is null exactly when routes is empty; and it
\* is the route NarrativeExplanation selected as top.
C4_TopIsFirstMaximal ==
    \A i \in Started :
        pc[i] = "done" =>
            LET rs == state[i].routes
                sc(k) == state[i].scenic_scores[rs[k]["id"]]
                t == result[i].topScenicRouteId
            IN  /\ (t = None) <=> (rs = <<>>)
                /\ rs # <<>> =>
                      /\ \E k \in DOMAIN rs :
                            /\ rs[k]["id"] = t
                            /\ \A j \in DOMAIN rs : sc(j) <= sc(k)
                            /\ \A j \in DOMAIN rs : j < k => sc(j) < sc(k)
                      /\ top[i]["id"] = t

\* A response over two routes with the same positive score: the first wins.
C4_Witness ==
    \E i \in Started :
        /\ pc[i] = "done"
        /\ Len(state[i].routes) = 2
        /\ state[i].scenic_scores[state[i].routes[1]["id"]] = 340
        /\ state[i].scenic_scores[state[i].routes[2]["id"]] = 340
        /\ result[i].topScenicRouteId = state[i].routes[1]["id"]

\* C5: after ScenicScoring scenicScores has exactly one entry per route id,
\* each in [0, 10]; the entry is min(10, 0.4*parks + 0.3*water +
\* 0.2*attractions + 0.5*avgRating) to 2 decimals, exactly 10 when the raw
\* score exceeds 10, and 0 for a route with no POI.
C5_ScoreClamped ==
    \A i \in Started :
        Written(i, "scenic_scores") =>
            /\ DOMAIN state[i].scenic_scores = RouteIds(i)
            /\ \A id \in RouteIds(i) :
                  LET places == state[i].places_by_route[id]
                      s == state[i].scenic_scores[id]
                      n == IF Len(places) = 0 THEN 1 ELSE Len(places)
                      raw == (40 * CountType(places, "park")
                              + 30 * CountType(places, "natural_feature")
                              + 20 * CountType(places, "tourist_attraction")) * n
                             + 5 * TenthsOf(places)
                  IN  /\ s >= 0 /\ s <= 1000
                      /\ raw > 1000 * n => s = 1000
                      /\ raw <= 1000 * n =>
                            /\ 2 * (s * n - raw) <= n
                            /\ 2 * (raw - s * n) <= n
                      /\ places = <<>> => s = 0

\* A route whose raw score is 10.6 and whose reported score is 10.
C5_Witness ==
    \E i \in Started :
        /\ Written(i, "scenic_scores")
        /\ \E id \in RouteIds(i) :
              /\ state[i].places_by_route[id] = NineSlideRocks
              /\ state[i].scenic_scores[id] = 1000

\* C6: no outbound call goes to a provider whose credential is absent: no
\* routing or places call without the mapping credential, no generation call
\* without the generation credential; mock routes, mock places and the
\* templated sentence are used instead.
C6_NoCallWithoutCredential ==
    \A i \in Started :
        /\ ~GOOGLE_API_KEY =>
              /\ pc[i] \notin {"RouteAgent:call", "PlacesAgent:call"}
              /\ log[i].RouteAgent = <<>>
              /\ log[i].PlacesAgent = <<>>
              /\ Written(i, "routes") => state[i].routes = mock_routes
              /\ Written(i, "places_by_route") =>
                    state[i].places_by_route = [id \in RouteIds(i) |-> mock_places]
        /\ ~GEMINI_API_KEY =>
              /\ pc[i] # "ExplainAgent:call"
              /\ log[i].ExplainAgent = <<>>
              /\ Written(i, "explanation") => state[i].explanation = TemplateFor(i)

\* A completed evaluation with neither credential.
C6_Witness ==
    \E i \in Started :
        /\ ~GOOGLE_API_KEY /\ ~GEMINI_API_KEY
        /\ pc[i] = "done"
        /\ result[i].explanation =
              "This route scores 3.17/10 with highlights: Oak Creek Canyon Vista, Red Rock State Park."

\* C7: for any routes and any per-route pattern of places-lookup outcomes,
\* PlaceEnrichment completes, a failed lookup leaves an empty POI sequence
\* for its own route only, and every other route keeps the entry its own
\* lookup gave.
C7_PerRouteIsolation ==
    \A i \in Started :
        /\ ~(pc[i] = "failed" /\ trace[i][Len(trace[i])] = "PlacesAgent")
        /\ (GOOGLE_API_KEY /\ Written(i, "places_by_route")) =>
              \A k \in DOMAIN state[i].routes :
                  state[i].places_by_route[state[i].routes[k]["id"]]
                     = PlacesIn(log[i].PlacesAgent[k])

\* C8: every key of placesByRoute and scenicScores is the id of a route in
\* routes; once RouteRetrieval wrote routes no later step adds, removes,
\* reorders or modifies a route; and the result lists one entry per route in
\* the same order.
C8_KeysAndOrder ==
    \A i \in Started :
        /\ Written(i, "places_by_route") =>
              DOMAIN state[i].places_by_route \subseteq RouteIds(i)
        /\ Written(i, "scenic_scores") =>
              DOMAIN state[i].scenic_scores \subseteq RouteIds(i)
        /\ pc[i] = "done" =>
              /\ Len(result[i].routes) = Len(state[i].routes)
              /\ \A k \in DOMAIN state[i].routes :
                    result[i].routes[k].id = state[i].routes[k]["id"]

C8_RoutesFrozen ==
    \A i \in Started :
        Written(i, "routes") =>
            /\ "routes" \in DOMAIN state'[i]
            /\ state'[i].routes = state[i].routes

C8_RoutesImmutable == [] C8_KeysAndOrder /\ [][C8_RoutesFrozen]_vars

\* A response over the provider's two routes, in the provider's order.
C8_Witness ==
    \E i \in Started :
        /\ pc[i] = "done"
        /\ state[i].routes = <<RouteB, RouteA>>
        /\ result[i].routes[1].id = "r2" /\ result[i].routes[2].id = "r1"
        /\ DOMAIN state[i].places_by_route = {"r1", "r2"}

\* C9: an evaluation runs the four stages once each in the fixed order, makes
\* each outbound call at most once (one routing request, one places request
\* per route, one generation request), and always reaches the terminal state
\* with routes, placesByRoute, scenicScores and explanation all set.
C9_RunsOnceToCompletion ==
    \A i \in Started :
        /\ trace[i] = SubSeq(Nodes, 1, Len(trace[i]))
        /\ Len(log[i].RouteAgent) <= 1
        /\ Len(log[i].ExplainAgent) <= 1
        /\ Written(i, "routes") => Len(log[i].PlacesAgent) <= Len(state[i].routes)
        /\ pc[i] # "failed"
        /\ pc[i] \in {"respond", "done"} =>
              {"routes", "places_by_route", "scenic_scores", "explanation"}
                 \subseteq DOMAIN state[i]

\* The evaluation of request i run alone: the four nodes and the response
\* assembly applied in sequence to the request body, each outbound call
\* receiving what log[i] recorded for it.
AloneFrom(trip, calls) ==
    LET pick(l, k) == IF k <= Len(l) THEN l[k] ELSE TransportError
        a == get_routes(trip, GOOGLE_API_KEY, pick(calls.RouteAgent, 1))
        b == get_places(a.state, GOOGLE_API_KEY,
                        [k \in 1..Len(Get(a.state, "routes", <<>>)) |->
                            pick(calls.PlacesAgent, k)])
        c == scenic_score(b.state)
        d == explain_with_gemini(c.state, GEMINI_API_KEY, pick(calls.ExplainAgent, 1))
        e == Respond(d.state)
    IN  IF ~a.ok THEN [ok |-> FALSE, exc |-> a.exc, body |-> <<>>]
        ELSE IF ~b.ok THEN [ok |-> FALSE, exc |-> b.exc, body |-> <<>>]
        ELSE IF ~c.ok THEN [ok |-> FALSE, exc |-> c.exc, body |-> <<>>]
        ELSE IF ~d.ok THEN [ok |-> FALSE, exc |-> d.exc, body |-> <<>>]
        ELSE e

\* C10: interleaved evaluations do not interfere: each owns its Trip State,
\* and each request's outcome (routes, scores, explanation,
\* topScenicRouteId, or the error) is the one it has when run alone with the
\* same provider outcomes.
C10_NoInterference ==
    \A i \in Started :
        LET alone == AloneFrom([origin |-> state[i].origin,
                                destination |-> state[i].destination], log[i])
        IN  /\ pc[i] = "done" => (alone.ok /\ result[i] = alone.body)
            /\ pc[i] = "failed" => (~alone.ok /\ error[i] = alone.exc)

\* Two overlapping evaluations that both answered, with different results.
C10_Witness ==
    /\ overlap
    /\ \A i \in Requests : pc[i] = "done"
    /\ result["req1"].explanation # result["req2"].explanation
    /\ result["req1"].scores # result["req2"].scores

====
